---- MODULE Spec2Model ----
(***************************************************************************)
(* AutoResearcher: the plan -> loop[search -> evaluate] -> synthesize      *)
(* step sequencer (src/app/graph.py) and its four agents                   *)
(* (src/app/agents/*.py) over the shared ResearchState (src/app/state.py). *)
(*                                                                         *)
(* Scores are floats in the code; here they are integers in tenths         *)
(* (0.3 is 3, 0.6 is 6, 1.0 is 10).  A url is a natural number; 0 stands   *)
(* for a falsy url (missing key, None or the empty string: the code tests  *)
(* `not url`).  A text is a sequence of one-character strings.  The        *)
(* `content` snippet of a source is carried opaquely by the code and never *)
(* read by a control decision; it is left out of the records.              *)
(***************************************************************************)
EXTENDS Integers, Sequences, FiniteSets, TLC

\* ------------------------------------------------------------------ bounds
\* Number of distinct non-empty urls the search capability can return.
NumUrls == 4
\* Longest batch of results one search call returns.
MaxResults == 2
\* Longest JSON array the scoring model returns.
MaxEntries == 2
\* Longest sequence of direct agent calls on one state record.
MaxCalls == 5
\* Searcher calls, and Evaluator calls, of a probed run.
ProbeRounds == 2
\* Most lines of a text the provider answers the planning prompt with, when
\* the Planner is examined on its own.
MaxLines == 5
\* Threads that call generate_text at the same time.
NumThreads == 2
\* generate_text calls of one thread.
MaxGenCalls == 2
\* Largest max_retries argument of a generate_text call.
MaxRetriesTried == 6
\* Largest max_retries argument when several threads call generate_text.
SharedRetries == 2
\* Time units after the Epoch during which time is let pass unit by unit.
MaxTicks == 3

\* ------------------------------------------------------- program constants
DefaultScore == 3
ScoreThreshold == 6
MinScore == 0
MaxScore == 10
TopK == 3
MaxSteps == 4
recursion_limit == 30
min_request_interval == 2
max_retries == 3
BaseDelay == 3
BackoffFactor == 2
MaxDelay == 30

\* --------------------------------------------------------------- the state
VARIABLES
    topic,          \* ResearchState.topic
    plan,           \* ResearchState.plan
    current_step,   \* ResearchState.current_step
    sources,        \* ResearchState.sources
    report,         \* ResearchState.report (None until written)
    status,         \* ResearchState.status (advisory)
    tavily_key,     \* whether TAVILY_API_KEY is set in the environment
    pc,             \* the sequencer's next node, "done", "aborted"; "free" = no sequencer
    run,            \* how many times each node (agent) was executed on this state record
    last,           \* the last agent invocation: which, how it ended, the calls it made
    probe,          \* the last recorded Evaluator call: the model's answer, the kept list
    client          \* the Generation Client: clock, _last_request_time, its callers' threads

state == <<topic, plan, current_step, sources, report, status>>
vars == <<topic, plan, current_step, sources, report, status, tavily_key, pc, run, last, probe, client>>

None == "<None>"
Topics == {"quantum computing"}

Min2(a, b) == IF a <= b THEN a ELSE b
Max2(a, b) == IF a >= b THEN a ELSE b

\* What an invocation did: outcome "returned" or "raised"; exc = the exception
\* that occurred in it (raised to the caller, or caught by the agent), None if
\* there was none; gen / search = number of generate_text / client.search
\* calls it made; path = the branch of the agent it took; dup = whether the
\* Searcher skipped a result because its url was already seen.
Returned(op, path, gen, search) ==
    [op |-> op, outcome |-> "returned", exc |-> None, gen |-> gen, search |-> search,
     path |-> path, dup |-> FALSE]
Raised(op, exc, gen, search) ==
    [op |-> op, outcome |-> "raised", exc |-> exc, gen |-> gen, search |-> search,
     path |-> "raised", dup |-> FALSE]

\* generate_text either returns the provider's text or raises: RuntimeError
\* after rate-limit retries are exhausted, or the provider's own error.
GenErrors == {"RuntimeError", "ClientError"}

\* ------------------------------------------------------------- text helpers
Whitespace == {" ", "\t"}
Digits == {"1", "2", "3"}
\* "*" stands for the bullet character U+2022 of the code, which a module
\* cannot spell
Bullets == {"-", "*"}
\* the characters of line.lstrip("0123456789.-*) \t") that the texts use
Enumeration == Digits \cup {".", "-", "*", ")", " ", "\t"}

RECURSIVE LStripSet(_, _)
LStripSet(s, cs) ==
    IF s # <<>> /\ Head(s) \in cs THEN LStripSet(Tail(s), cs) ELSE s

RECURSIVE RStripSet(_, _)
RStripSet(s, cs) ==
    IF s # <<>> /\ s[Len(s)] \in cs THEN RStripSet(SubSeq(s, 1, Len(s) - 1), cs) ELSE s

\* str.strip()
Strip(s) == RStripSet(LStripSet(s, Whitespace), Whitespace)

\* str.split("\n"): the pieces between newlines, empty pieces included
RECURSIVE SplitFrom(_, _, _)
SplitFrom(text, i, cur) ==
    IF i > Len(text) THEN <<cur>>
    ELSE IF text[i] = "\n" THEN <<cur>> \o SplitFrom(text, i + 1, <<>>)
    ELSE SplitFrom(text, i + 1, Append(cur, text[i]))
Split(text) == SplitFrom(text, 1, <<>>)

\* "\n".join(lines), used to write the provider's texts down
RECURSIVE Join(_)
Join(lines) ==
    IF lines = <<>> THEN <<>>
    ELSE IF Len(lines) = 1 THEN lines[1]
    ELSE lines[1] \o <<"\n">> \o Join(Tail(lines))

\* -------------------------------------------------------- Generation Client
\* gemini.py.  Time is counted in whole time units (seconds).  A thread is one
\* caller of generate_text: sequencer runs of concurrent requests execute on
\* different worker threads and share the module's globals.
Threads == 1..NumThreads

\* time.time() when the module is loaded: any value that is at least the
\* minimum interval past the initial _last_request_time of 0 behaves alike
Epoch == min_request_interval

\* the max_retries arguments tried: one attempt, the default, and enough
\* attempts for the doubled delay to pass the cap
RetryChoices == {1, max_retries, MaxRetriesTried}
\* and those tried when several threads call at the same time
SharedRetryChoices == 1..SharedRetries

NoError == [type |-> "none", text |-> <<>>]

\* The exceptions client.models.generate_content raises, with the words of
\* str(e) that matter: three ClientErrors of rate-limit class, a ClientError
\* of another class, and an error that is no ClientError.
ProviderErrors ==
    { [type |-> "ClientError", text |-> <<"429", "Too", "Many", "Requests">>],
      [type |-> "ClientError", text |-> <<"RESOURCE_EXHAUSTED">>],
      [type |-> "ClientError", text |-> <<"Quota", "exceeded">>],
      [type |-> "ClientError", text |-> <<"400", "INVALID_ARGUMENT">>],
      [type |-> "ServerError", text |-> <<"503", "UNAVAILABLE">>] }

\* RuntimeError("Gemini API rate limit exceeded. ...")  (gemini.py 85-88)
RateLimitExceeded == [type |-> "RuntimeError", text |-> <<"Gemini", "API", "rate", "limit", "exceeded">>]

\* resp.text: a text, or None when the response carries none
ProviderTexts == {"answer", None}

\* what a provider call ends with
ProviderOutcomes ==
    [kind : {"text"}, text : ProviderTexts] \cup [kind : {"raise"}, exc : ProviderErrors]

\* str.lower(), on the words the errors use
Lower(w) ==
    CASE w = "Quota" -> "quota"
      [] w = "RESOURCE_EXHAUSTED" -> "resource_exhausted"
      [] w = "INVALID_ARGUMENT" -> "invalid_argument"
      [] w = "UNAVAILABLE" -> "unavailable"
      [] w = "Too" -> "too"
      [] w = "Many" -> "many"
      [] w = "Requests" -> "requests"
      [] OTHER -> w

Contains(text, w) == \E i \in 1..Len(text) : text[i] = w

\* Every ClientError taken for a rate limit.
IsAnyClientError(e) == e.type = "ClientError"

\* gemini.py 70-75: a ClientError whose text has "429", "RESOURCE_EXHAUSTED"
\* or, in lower case, "quota"
IsRateLimit(e) ==
    /\ e.type = "ClientError"
    /\ \/ Contains(e.text, "429")
       \/ Contains(e.text, "RESOURCE_EXHAUSTED")
       \/ Contains([i \in 1..Len(e.text) |-> Lower(e.text[i])], "quota")

\* The delay doubled without the cap.
NextDelayUncapped(delay) == delay * BackoffFactor

\* delay = min(delay * 2, 30)  (gemini.py 80)
NextDelay(delay) == Min2(delay * BackoffFactor, MaxDelay)

NoResult == [kind |-> "none", text |-> None, exc |-> NoError]

\* A thread: where it stands in generate_text, the locals max_retries,
\* attempt and delay, the time its sleep ends, and the record of the call: the
\* exception its latest attempt ended with, provider attempts started,
\* rate-limit failures met, the backoff sleeps asked for, what the call ended
\* with, and how many calls the thread made.
IdleThread ==
    [pc |-> "idle", max_retries |-> 0, attempt |-> 0, delay |-> 0, provider_error |-> NoError,
     wake |-> 0, attempts |-> 0, failed |-> 0, sleeps |-> <<>>, result |-> NoResult,
     calls |-> 0]

\* The client: the clock, the global _last_request_time, the threads and which
\* of them are callers, and the record of the provider calls: how many were
\* started, when the latest one was, and the smallest distance between one
\* start and the next (counted up to the minimum interval).
IdleClient ==
    [now |-> Epoch, last_request_time |-> 0, th |-> [t \in Threads |-> IdleThread],
     callers |-> {}, starts |-> 0, latest_start |-> 0, min_gap |-> min_request_interval]

\* generate_text is entered (gemini.py 44-54): the throttle's test and, when
\* the last request is too recent, the start of its sleep.
Generate(t, m) ==
    LET me == client.th[t]
        time_since_last == client.now - client.last_request_time
        wait_time == min_request_interval - time_since_last
        entered == [me EXCEPT !.max_retries = m, !.attempt = 0, !.delay = BaseDelay,
                              !.provider_error = NoError, !.attempts = 0, !.failed = 0,
                              !.sleeps = <<>>, !.result = NoResult, !.calls = @ + 1]
    IN  /\ t \in client.callers
        /\ m \in (IF Cardinality(client.callers) = 1 THEN RetryChoices ELSE SharedRetryChoices)
        /\ me.pc = "idle"
        /\ me.calls < MaxGenCalls
        /\ client' = [client EXCEPT !.th[t] =
                        IF time_since_last < min_request_interval
                        THEN [entered EXCEPT !.pc = "throttle", !.wake = client.now + wait_time]
                        ELSE [entered EXCEPT !.pc = "attempt"]]

\* time.sleep returns, at its time or later (gemini.py 51 and 79)
SleepEnds(t) ==
    /\ client.th[t].pc \in {"throttle", "backoff"}
    /\ client.now >= client.th[t].wake
    /\ client' = [client EXCEPT !.th[t].pc = "attempt"]

\* the top of the loop: the time is noted and the provider is called
\* (gemini.py 56-62)
StartAttempt(t) ==
    /\ client.th[t].pc = "attempt"
    /\ client' = [client EXCEPT
                    !.last_request_time = client.now,
                    !.starts = @ + 1,
                    !.latest_start = client.now,
                    !.min_gap = IF client.starts > 0
                                THEN Min2(@, client.now - client.latest_start)
                                ELSE @,
                    !.th[t].pc = "calling",
                    !.th[t].attempts = @ + 1]

\* the provider call ends, with a response or an exception (gemini.py 62-96)
ProviderAnswers(t, o) ==
    LET me == client.th[t]
    IN  /\ me.pc = "calling"
        /\ client' = [client EXCEPT !.th[t] =
              IF o.kind = "text"
              THEN [me EXCEPT !.pc = "idle", !.result = [NoResult EXCEPT !.kind = "text", !.text = o.text]]
              ELSE IF o.exc.type = "ClientError" /\ IsRateLimit(o.exc)
              THEN IF me.attempt < me.max_retries - 1
                   THEN [me EXCEPT !.pc = "backoff",
                                   !.provider_error = o.exc,
                                   !.failed = @ + 1,
                                   !.sleeps = Append(@, me.delay),
                                   !.wake = client.now + me.delay,
                                   !.delay = NextDelay(me.delay),
                                   !.attempt = @ + 1]
                   ELSE [me EXCEPT !.pc = "idle",
                                   !.provider_error = o.exc,
                                   !.failed = @ + 1,
                                   !.result = [NoResult EXCEPT !.kind = "raise", !.exc = RateLimitExceeded]]
              ELSE [me EXCEPT !.pc = "idle",
                              !.provider_error = o.exc,
                              !.result = [NoResult EXCEPT !.kind = "raise", !.exc = o.exc]]]

\* the times at which a sleeping thread is due to wake
Wakes == {client.th[t].wake : t \in {u \in Threads : client.th[u].pc \in {"throttle", "backoff"}}}

\* Time passes: by one unit, for MaxTicks units on from the Epoch, or up to
\* the end of a sleep.
TimePasses ==
    \E later \in {client.now + 1 : x \in {y \in {0} : client.now < Epoch + MaxTicks}}
                 \cup {w \in Wakes : w > client.now} :
        client' = [client EXCEPT !.now = later]

\* ------------------------------------------------------------------ Planner
\* The scan taking every line for a qualifying one.
RECURSIVE NumberedStepsOfAnyLine(_)
NumberedStepsOfAnyLine(lines) ==
    IF lines = <<>> THEN <<>>
    ELSE LET clean_line == LStripSet(Strip(Head(lines)), Enumeration)
             rest == NumberedStepsOfAnyLine(Tail(lines))
         IN  IF clean_line # <<>> THEN <<clean_line>> \o rest ELSE rest

\* The qualifying lines' non-empty remainders, in order (planner.py 32-40).
RECURSIVE NumberedSteps(_)
NumberedSteps(lines) ==
    IF lines = <<>> THEN <<>>
    ELSE LET line == Strip(Head(lines))
             clean_line == LStripSet(line, Enumeration)
             rest == NumberedSteps(Tail(lines))
         IN  IF line # <<>> /\ Head(line) \in (Digits \cup Bullets) /\ clean_line # <<>>
             THEN <<clean_line>> \o rest
             ELSE rest

\* [s.strip() for s in output.split("\n") if s.strip()] (planner.py 43-44)
RECURSIVE NonEmptyLines(_)
NonEmptyLines(lines) ==
    IF lines = <<>> THEN <<>>
    ELSE LET s == Strip(Head(lines))
         IN  IF s # <<>> THEN <<s>> \o NonEmptyLines(Tail(lines))
             ELSE NonEmptyLines(Tail(lines))

DefaultPlan(t) ==
    << <<"Find recent articles about ", t>>,
       <<"Search for expert opinions on ", t>>,
       <<"Look for case studies related to ", t>> >>

FallbackPlan(t) ==
    << <<"Research overview of ", t>>,
       <<"Find key developments in ", t>>,
       <<"Explore challenges in ", t>> >>

\* The parse without the steps[:4] truncation.
ParsePlanUncut(output, t) ==
    LET lines == Split(output)
        numbered == NumberedSteps(lines)
        steps == IF numbered = <<>> THEN NonEmptyLines(lines) ELSE numbered
    IN  IF steps = <<>> THEN DefaultPlan(t) ELSE steps

\* The plan parsed from the provider's text (planner.py 31-56).
ParsePlan(output, t) ==
    LET lines == Split(output)
        numbered == NumberedSteps(lines)
        steps == IF numbered = <<>> THEN NonEmptyLines(lines) ELSE numbered
        cut == SubSeq(steps, 1, Min2(MaxSteps, Len(steps)))
    IN  IF cut = <<>> THEN DefaultPlan(t) ELSE cut

\* The texts the provider answers the planning prompt with.
PlannerTexts ==
    { Join(<< <<"1", ".", " ", "a">>, <<"2", ".", " ", "b">>, <<" ", "3", ")", "c", " ">> >>),
      Join(<< <<"a", " ", "b">> >>),
      Join(<< <<"-", " ", "a">>, <<>>, <<"*", "b">> >>),
      Join(<< <<"-", "a">>, <<"-", "b">>, <<"-", "a">>, <<"-", "b">>, <<"-", "c">> >>),
      Join(<< <<"1", ".">>, <<"b">> >>),
      <<>>,
      Join(<< <<" ">>, <<"\t">> >>) }

\* What generate_text hands the Planner: a text, a response whose text is
\* None, or an exception.
PlannerOutcomes ==
    [kind : {"text"}, text : PlannerTexts]
    \cup {[kind |-> "none"]}
    \cup [kind : {"raise"}, exc : GenErrors]

\* planner_agent catching only the rate-limit RuntimeError.
planner_agent_reraises(g) ==
    /\ IF g.kind = "text"
       THEN LET steps == ParsePlan(g.text, topic)
            IN  /\ plan' = steps
                /\ current_step' = 0
                /\ status' = <<"Created plan with steps", Len(steps)>>
                /\ last' = Returned("planner", "parsed", 1, 0)
       ELSE IF g.kind = "raise" /\ g.exc = "RuntimeError"
       THEN /\ plan' = FallbackPlan(topic)
            /\ current_step' = 0
            /\ status' = <<"Using fallback plan due to error", 0>>
            /\ last' = [Returned("planner", "fallback", 1, 0) EXCEPT !.exc = g.exc]
       ELSE /\ last' = Raised("planner", IF g.kind = "raise" THEN g.exc ELSE "AttributeError", 1, 0)
            /\ UNCHANGED <<plan, current_step, status>>
    /\ UNCHANGED <<topic, sources, report, tavily_key>>

\* planner_agent(state) with the generation call's outcome g.
planner_agent(g) ==
    /\ IF g.kind = "text"
       THEN LET steps == ParsePlan(g.text, topic)
            IN  /\ plan' = steps
                /\ current_step' = 0
                /\ status' = <<"Created plan with steps", Len(steps)>>
                /\ last' = Returned("planner", "parsed", 1, 0)
       ELSE \* except Exception: generation raised, or output.split on None did
            /\ plan' = FallbackPlan(topic)
            /\ current_step' = 0
            /\ status' = <<"Using fallback plan due to error", 0>>
            /\ last' = [Returned("planner", "fallback", 1, 0) EXCEPT
                            !.exc = IF g.kind = "raise" THEN g.exc ELSE "AttributeError"]
    /\ UNCHANGED <<topic, sources, report, tavily_key>>

\* ----------------------------------------------------------------- Searcher
Urls == 1..NumUrls
\* the url of one result: 0 when r.get("url") is falsy
ResultUrls == 0..NumUrls

RECURSIVE SeqsUpTo(_, _)
SeqsUpTo(S, n) ==
    IF n = 0 THEN {<<>>}
    ELSE LET shorter == SeqsUpTo(S, n - 1)
         IN  shorter \cup {Append(q, x) : q \in {r \in shorter : Len(r) = n - 1}, x \in S}

\* What client.search hands the Searcher: an exception, a response that is
\* not a dict (results = []), or a dict with its "results" list.
SearchOutcomes ==
    {[kind |-> "raise"], [kind |-> "not_dict"]}
    \cup [kind : {"dict"}, results : SeqsUpTo(ResultUrls, MaxResults)]

NewSource(url) == [url |-> url, source_type |-> "tavily"]

SeenUrls(srcs) == {srcs[i].url : i \in 1..Len(srcs)}

\* The loop filling a list of its own instead of state.sources.
AppendToFresh(srcs, seen, results) ==
    [i \in 1..Len(SelectSeq(results, LAMBDA u : u # 0)) |->
        NewSource(SelectSeq(results, LAMBDA u : u # 0)[i])]

\* The loop without the `url in seen` test.
RECURSIVE AppendAll(_, _, _)
AppendAll(srcs, seen, results) ==
    IF results = <<>> THEN srcs
    ELSE LET url == Head(results)
         IN  IF url = 0
             THEN AppendAll(srcs, seen, Tail(results))
             ELSE AppendAll(Append(srcs, NewSource(url)), seen \cup {url}, Tail(results))

\* The dedup loop (searcher.py 33-45): results taken in order, a falsy or
\* already seen url skipped, every other one appended and remembered.
RECURSIVE AppendNew(_, _, _)
AppendNew(srcs, seen, results) ==
    IF results = <<>> THEN srcs
    ELSE LET url == Head(results)
         IN  IF url = 0 \/ url \in seen
             THEN AppendNew(srcs, seen, Tail(results))
             ELSE AppendNew(Append(srcs, NewSource(url)), seen \cup {url}, Tail(results))

\* whether the loop skips a result because its url is in seen by then
SkipsSeen(seen, results) ==
    \E i \in 1..Len(results) :
        /\ results[i] # 0
        /\ \/ results[i] \in seen
           \/ \E j \in 1..(i - 1) : results[j] = results[i]

\* search_agent advancing the cursor before it makes the search call.
search_agent_advances_first(r) ==
    /\ IF current_step >= Len(plan)
       THEN /\ last' = Returned("searcher", "plan_done", 0, 0)
            /\ UNCHANGED <<current_step, sources>>
       ELSE IF ~tavily_key
       THEN /\ last' = Raised("searcher", "EnvironmentError", 0, 0)
            /\ UNCHANGED <<current_step, sources>>
       ELSE IF r.kind = "raise"
       THEN /\ last' = Raised("searcher", "SearchError", 0, 1)
            /\ current_step' = current_step + 1
            /\ UNCHANGED sources
       ELSE LET results == IF r.kind = "dict" THEN r.results ELSE <<>>
            IN  /\ sources' = AppendNew(sources, SeenUrls(sources), results)
                /\ current_step' = current_step + 1
                /\ last' = [Returned("searcher", "searched", 0, 1) EXCEPT
                                !.dup = SkipsSeen(SeenUrls(sources), results)]
    /\ UNCHANGED <<topic, plan, report, status, tavily_key>>

\* search_agent taking its query off the front of the plan.
search_agent_pops_plan(r) ==
    /\ IF plan = <<>>
       THEN /\ last' = Returned("searcher", "plan_done", 0, 0)
            /\ UNCHANGED <<plan, sources>>
       ELSE IF ~tavily_key
       THEN /\ last' = Raised("searcher", "EnvironmentError", 0, 0)
            /\ UNCHANGED <<plan, sources>>
       ELSE IF r.kind = "raise"
       THEN /\ last' = Raised("searcher", "SearchError", 0, 1)
            /\ UNCHANGED <<plan, sources>>
       ELSE LET results == IF r.kind = "dict" THEN r.results ELSE <<>>
            IN  /\ sources' = AppendNew(sources, SeenUrls(sources), results)
                /\ plan' = Tail(plan)
                /\ last' = [Returned("searcher", "searched", 0, 1) EXCEPT
                                !.dup = SkipsSeen(SeenUrls(sources), results)]
    /\ UNCHANGED <<topic, current_step, report, status, tavily_key>>

\* search_agent with the cursor advanced only when a source was appended.
search_agent_stalls(r) ==
    /\ IF current_step >= Len(plan)
       THEN /\ last' = Returned("searcher", "plan_done", 0, 0)
            /\ UNCHANGED <<current_step, sources>>
       ELSE IF ~tavily_key
       THEN /\ last' = Raised("searcher", "EnvironmentError", 0, 0)
            /\ UNCHANGED <<current_step, sources>>
       ELSE IF r.kind = "raise"
       THEN /\ last' = Raised("searcher", "SearchError", 0, 1)
            /\ UNCHANGED <<current_step, sources>>
       ELSE LET results == IF r.kind = "dict" THEN r.results ELSE <<>>
            IN  /\ sources' = AppendNew(sources, SeenUrls(sources), results)
                /\ current_step' = IF sources' # sources THEN current_step + 1 ELSE current_step
                /\ last' = [Returned("searcher", "searched", 0, 1) EXCEPT
                                !.dup = SkipsSeen(SeenUrls(sources), results)]
    /\ UNCHANGED <<topic, plan, report, status, tavily_key>>

\* search_agent(state) with the search call's outcome r.
search_agent(r) ==
    /\ IF current_step >= Len(plan)
       THEN /\ last' = Returned("searcher", "plan_done", 0, 0)
            /\ UNCHANGED <<current_step, sources>>
       ELSE IF ~tavily_key
       THEN /\ last' = Raised("searcher", "EnvironmentError", 0, 0)
            /\ UNCHANGED <<current_step, sources>>
       ELSE IF r.kind = "raise"
       THEN /\ last' = Raised("searcher", "SearchError", 0, 1)
            /\ UNCHANGED <<current_step, sources>>
       ELSE LET results == IF r.kind = "dict" THEN r.results ELSE <<>>
            IN  /\ sources' = AppendNew(sources, SeenUrls(sources), results)
                /\ current_step' = current_step + 1
                /\ last' = [Returned("searcher", "searched", 0, 1) EXCEPT
                                !.dup = SkipsSeen(SeenUrls(sources), results)]
    /\ UNCHANGED <<topic, plan, report, status, tavily_key>>

\* ---------------------------------------------------------------- Evaluator
\* The scores the model writes, in tenths: below 0, at the threshold, above 1.
\* (Below the threshold there are then 0 and the default 0.3.)
RawScores == {-2, 6, 13}

\* A record whose scoring failed counted as not yet scored.
IsScoredWithoutError(src) == "score" \in DOMAIN src /\ "eval_error" \notin DOMAIN src

IsScored(src) == "score" \in DOMAIN src

\* the ids (0-based indexes into sources) of the records to score, in order
ToScore(srcs) == SelectSeq([i \in 1..Len(srcs) |-> i - 1], LAMBDA id : ~IsScored(srcs[id + 1]))

\* The ids the model can answer with: those it was sent, and Len(srcs), an id
\* of no record.  (An id of an already scored record is looked up by nobody,
\* like the id of no record.)
AnswerIds(srcs) == {ToScore(srcs)[j] : j \in 1..Len(ToScore(srcs))} \cup {Len(srcs)}

\* One element of the model's JSON array.  bad = "none": int(obj["id"]) and
\* float(obj["score"]) both succeed; "score": the score is missing or not a
\* number; "id": the element is no object, or its id is missing or no integer.
ModelEntries(srcs) ==
    [id : AnswerIds(srcs), score : RawScores, bad : {"none"}]
    \cup [id : AnswerIds(srcs), score : {0}, bad : {"score"}]
    \cup {[id |-> 0, score |-> 0, bad |-> "id"]}

\* What generate_text hands the Evaluator: an exception, a text json.loads
\* rejects (None and the empty text included), JSON that is no array, or an
\* array.
GenOutcomes(srcs) ==
    [kind : {"raise"}, exc : GenErrors]
    \cup {[kind |-> "unparseable"], [kind |-> "not_list"]}
    \cup [kind : {"list"}, entries : SeqsUpTo(ModelEntries(srcs), MaxEntries)]

\* With nothing to score the Evaluator returns before it calls generate_text:
\* there is no outcome to choose.
EvalOutcomes(srcs) ==
    IF ToScore(srcs) = <<>> THEN {[kind |-> "none"]} ELSE GenOutcomes(srcs)

\* The score taken as the model wrote it.
NoClamp(x) == x

\* max(0.0, min(1.0, float(x)))
Clamp(x) == Max2(MinScore, Min2(MaxScore, x))

\* score_map (evaluator.py 66-71): a later element overrides an earlier one
\* with the same id; an element that raises is skipped.
RECURSIVE ScoreMap(_, _)
ScoreMap(entries, m) ==
    IF entries = <<>> THEN m
    ELSE LET e == Head(entries)
         IN  IF e.bad # "none" THEN ScoreMap(Tail(entries), m)
             ELSE ScoreMap(Tail(entries),
                           [k \in DOMAIN m \cup {e.id} |->
                               IF k = e.id THEN Clamp(e.score) ELSE m[k]])

Kept(srcs) == SelectSeq(srcs, IsScored)

\* src["score"] = ...; src["eval_error"] = ...  (evaluator.py 58-62)
DefaultedOnError(src) ==
    [score |-> DefaultScore, eval_error |-> "JSON parse failed"] @@ src

\* src["score"] = score_map.get(item["id"], 0.3)  (evaluator.py 74-78)
ScoredFrom(src, id, m) ==
    [score |-> IF id \in DOMAIN m THEN m[id] ELSE DefaultScore] @@ src

\* An insertion that puts a record before the records of equal score.
RECURSIVE InsertByScoreTiesFirst(_, _)
InsertByScoreTiesFirst(sorted, x) ==
    IF sorted = <<>> THEN <<x>>
    ELSE IF Head(sorted).score > x.score
         THEN <<Head(sorted)>> \o InsertByScoreTiesFirst(Tail(sorted), x)
         ELSE <<x>> \o sorted

\* sorted(kept, key=score, reverse=True): stable, equal scores keep their order
RECURSIVE InsertByScore(_, _)
InsertByScore(sorted, x) ==
    IF sorted = <<>> THEN <<x>>
    ELSE IF Head(sorted).score >= x.score
         THEN <<Head(sorted)>> \o InsertByScore(Tail(sorted), x)
         ELSE <<x>> \o sorted

RECURSIVE SortedByScore(_)
SortedByScore(srcs) ==
    IF srcs = <<>> THEN <<>>
    ELSE InsertByScore(SortedByScore(SubSeq(srcs, 1, Len(srcs) - 1)), srcs[Len(srcs)])

\* The filter with a strict comparison.
PassesFilterStrict(src) == src.score > ScoreThreshold

PassesFilter(src) == src.score >= ScoreThreshold

\* The filter without the top-3 fallback.
FilterOnly(kept) == SelectSeq(kept, PassesFilter)

\* evaluator.py 80-82
FilterOrTop(kept) ==
    LET filtered == SelectSeq(kept, PassesFilter)
    IN  IF filtered # <<>> THEN filtered
        ELSE SubSeq(SortedByScore(kept), 1, Min2(TopK, Len(kept)))

\* sources after the parse-failure branch (evaluator.py 54-64)
AfterParseFailure(srcs) ==
    LET ids == ToScore(srcs)
    IN  Kept(srcs) \o [j \in 1..Len(ids) |-> DefaultedOnError(srcs[ids[j] + 1])]

\* kept at the end of the parse-success branch's loop (evaluator.py 66-78)
ScoredKept(srcs, scores) ==
    LET ids == ToScore(srcs)
        score_map == ScoreMap(IF scores.kind = "list" THEN scores.entries ELSE <<>>, <<>>)
    IN  Kept(srcs) \o [j \in 1..Len(ids) |-> ScoredFrom(srcs[ids[j] + 1], ids[j], score_map)]

\* The filter applied to the newly scored records alone.
AfterParseNewOnly(srcs, scores) ==
    FilterOrTop(SubSeq(ScoredKept(srcs, scores), Len(Kept(srcs)) + 1, Len(srcs)))

\* sources after the parse-success branch (evaluator.py 66-83)
AfterParse(srcs, scores) == FilterOrTop(ScoredKept(srcs, scores))

\* evaluator_agent looping over whatever json.loads returned.
evaluator_agent_loops_over_any(g) ==
    /\ IF sources = <<>>
       THEN /\ last' = Returned("evaluator", "no_sources", 0, 0)
            /\ UNCHANGED sources
       ELSE IF ToScore(sources) = <<>>
       THEN /\ sources' = Kept(sources)
            /\ last' = Returned("evaluator", "all_scored", 0, 0)
       ELSE IF g.kind = "raise"
       THEN /\ last' = Raised("evaluator", g.exc, 1, 0)
            /\ UNCHANGED sources
       ELSE IF g.kind = "unparseable"
       THEN /\ sources' = AfterParseFailure(sources)
            /\ last' = Returned("evaluator", "parse_failed", 1, 0)
       ELSE IF g.kind = "not_list"
       THEN /\ last' = Raised("evaluator", "TypeError", 1, 0)
            /\ UNCHANGED sources
       ELSE /\ sources' = AfterParse(sources, g)
            /\ last' = Returned("evaluator", "parsed", 1, 0)
    /\ UNCHANGED <<topic, plan, current_step, report, status, tavily_key>>

\* evaluator_agent(state) with the generation call's outcome g.
evaluator_agent(g) ==
    /\ IF sources = <<>>
       THEN /\ last' = Returned("evaluator", "no_sources", 0, 0)
            /\ UNCHANGED sources
       ELSE IF ToScore(sources) = <<>>
       THEN /\ sources' = Kept(sources)
            /\ last' = Returned("evaluator", "all_scored", 0, 0)
       ELSE IF g.kind = "raise"
       THEN /\ last' = Raised("evaluator", g.exc, 1, 0)
            /\ UNCHANGED sources
       ELSE IF g.kind = "unparseable"
       THEN /\ sources' = AfterParseFailure(sources)
            /\ last' = Returned("evaluator", "parse_failed", 1, 0)
       ELSE /\ sources' = AfterParse(sources, g)
            /\ last' = Returned("evaluator", "parsed", 1, 0)
    /\ UNCHANGED <<topic, plan, current_step, report, status, tavily_key>>

\* -------------------------------------------------------------- Synthesizer
NoSourcesMessage == "No sources were retrieved. Check Tavily key/config or try a different query."

\* The texts the provider answers the report prompt with; None when the
\* response carries no text.
ReportTexts == {"", "report A", "report B", None}

SynthOutcomes ==
    [kind : {"raise"}, exc : GenErrors] \cup [kind : {"text"}, text : ReportTexts]

\* `if existing_report:` -- None and the empty string are both falsy
Truthy(text) == text # None /\ text # ""

\* synthesizer_agent without the empty-sources branch.
synthesizer_agent_always_generates(g) ==
    /\ IF Truthy(report)
       THEN /\ last' = Returned("synthesizer", "already", 0, 0)
            /\ UNCHANGED report
       ELSE IF g.kind = "raise"
       THEN /\ last' = Raised("synthesizer", g.exc, 1, 0)
            /\ UNCHANGED report
       ELSE /\ report' = g.text
            /\ last' = Returned("synthesizer", "generated", 1, 0)
    /\ UNCHANGED <<topic, plan, current_step, sources, status, tavily_key>>

\* synthesizer_agent(state) with the generation call's outcome g.
synthesizer_agent(g) ==
    /\ IF Truthy(report)
       THEN /\ last' = Returned("synthesizer", "already", 0, 0)
            /\ UNCHANGED report
       ELSE IF sources = <<>>
       THEN /\ report' = NoSourcesMessage
            /\ last' = Returned("synthesizer", "no_sources", 0, 0)
       ELSE IF g.kind = "raise"
       THEN /\ last' = Raised("synthesizer", g.exc, 1, 0)
            /\ UNCHANGED report
       ELSE /\ report' = g.text
            /\ last' = Returned("synthesizer", "generated", 1, 0)
    /\ UNCHANGED <<topic, plan, current_step, sources, status, tavily_key>>

\* ----------------------------------------------------------- Step sequencer
\* The conditional edge leading back to the planner node.
should_continue_replans(step, steps) ==
    IF step < Len(steps) THEN "planner" ELSE "synthesize"

\* The test with <= for <.
should_continue_once_more(step, steps) ==
    IF step <= Len(steps) THEN "search" ELSE "synthesize"

\* should_continue(state), evaluated on the state Evaluator returned
should_continue(step, steps) ==
    IF step < Len(steps) THEN "search" ELSE "synthesize"

Steps == run.planner + run.search + run.evaluate + run.synthesize

NoInvocation == Returned("none", "none", 0, 0)

NoProbe == [before |-> <<>>, answer |-> [kind |-> "none"], kept |-> <<>>]

\* ResearchState(topic=topic): every other field at its default
FreshState ==
    /\ topic \in Topics
    /\ plan = <<>>
    /\ current_step = 0
    /\ sources = <<>>
    /\ report = None
    /\ status = <<None, 0>>
    /\ tavily_key \in BOOLEAN
    /\ run = [planner |-> 0, search |-> 0, evaluate |-> 0, synthesize |-> 0]
    /\ last = NoInvocation
    /\ probe = NoProbe
    /\ client = IdleClient

\* research_graph.invoke(state.dict(), {"recursion_limit": 30}): the entry
\* point is the planner node.
Init == FreshState /\ pc = "planner"

\* A node's exception ends the run; the step ceiling ends it too.
OutOfSteps == Steps >= recursion_limit

Abort ==
    /\ pc' = "aborted"
    /\ last' = Raised("sequencer", "GraphRecursionError", 0, 0)
    /\ UNCHANGED <<topic, plan, current_step, sources, report, status, tavily_key, run, probe, client>>

Goto(node) == pc' = IF last'.outcome = "raised" THEN "aborted" ELSE node

NodePlanner ==
    /\ pc = "planner"
    /\ IF OutOfSteps THEN Abort
       ELSE /\ \E g \in PlannerOutcomes : planner_agent(g)
            /\ run' = [run EXCEPT !.planner = @ + 1]
            /\ UNCHANGED <<probe, client>>
            /\ Goto("search")

NodeSearch ==
    /\ pc = "search"
    /\ IF OutOfSteps THEN Abort
       ELSE /\ \E r \in SearchOutcomes : search_agent(r)
            /\ run' = [run EXCEPT !.search = @ + 1]
            /\ UNCHANGED <<probe, client>>
            /\ Goto("evaluate")

NodeEvaluate ==
    /\ pc = "evaluate"
    /\ IF OutOfSteps THEN Abort
       ELSE /\ \E g \in EvalOutcomes(sources) : evaluator_agent(g)
            /\ run' = [run EXCEPT !.evaluate = @ + 1]
            /\ UNCHANGED <<probe, client>>
            /\ Goto(should_continue(current_step', plan'))

NodeSynthesize ==
    /\ pc = "synthesize"
    /\ IF OutOfSteps THEN Abort
       ELSE /\ \E g \in SynthOutcomes : synthesizer_agent(g)
            /\ run' = [run EXCEPT !.synthesize = @ + 1]
            /\ UNCHANGED <<probe, client>>
            /\ Goto("done")

Next == NodePlanner \/ NodeSearch \/ NodeEvaluate \/ NodeSynthesize

Spec == Init /\ [][Next]_vars

\* The sequencer runs the pending node as long as there is one.
FairSpec == Spec /\ WF_vars(Next)

\* research_graph.invoke(input, ...) on a state record that is not fresh: some
\* plan with the cursor anywhere, a source already scored, a report already
\* written.  The entry point is the planner node all the same.
PriorPlans == {<<>>, << <<"x">>, <<"y">> >>}
PriorSources == {<<>>, << [url |-> 1, source_type |-> "tavily", score |-> ScoreThreshold] >>}
PriorReports == {None, "report A"}

InitAnyState ==
    /\ topic \in Topics
    /\ plan \in PriorPlans
    /\ current_step \in {0, Len(plan)}
    /\ sources \in PriorSources
    /\ report \in PriorReports
    /\ status = <<None, 0>>
    /\ tavily_key \in BOOLEAN
    /\ run = [planner |-> 0, search |-> 0, evaluate |-> 0, synthesize |-> 0]
    /\ last = NoInvocation
    /\ probe = NoProbe
    /\ client = IdleClient
    /\ pc = "planner"

SpecAnyState == InitAnyState /\ [][Next]_vars

\* ------------------------------------------------- the agents on their own
\* The agents called directly, in any order, on one state record (as a unit
\* test or another caller of the agents would), MaxCalls calls at most; run
\* counts the calls of each agent.
InitAgents == FreshState /\ pc = "free"

\* The planning outcomes of the direct calls: one text of two steps, and each
\* failure.
DirectPlannerOutcomes ==
    {g \in PlannerOutcomes : g.kind = "text" => g.text = Join(<< <<"-", " ", "a">>, <<>>, <<"*", "b">> >>)}

CallPlanner ==
    /\ pc = "free"
    /\ Steps < MaxCalls
    /\ \E g \in DirectPlannerOutcomes : planner_agent(g)
    /\ run' = [run EXCEPT !.planner = @ + 1]
    /\ UNCHANGED <<pc, probe, client>>

CallSearcher ==
    /\ pc = "free"
    /\ Steps < MaxCalls
    /\ \E r \in SearchOutcomes : search_agent(r)
    /\ run' = [run EXCEPT !.search = @ + 1]
    /\ UNCHANGED <<pc, probe, client>>

CallEvaluator ==
    /\ pc = "free"
    /\ Steps < MaxCalls
    /\ \E g \in EvalOutcomes(sources) : evaluator_agent(g)
    /\ run' = [run EXCEPT !.evaluate = @ + 1]
    /\ UNCHANGED <<pc, probe, client>>

CallSynthesizer ==
    /\ pc = "free"
    /\ Steps < MaxCalls
    /\ \E g \in SynthOutcomes : synthesizer_agent(g)
    /\ run' = [run EXCEPT !.synthesize = @ + 1]
    /\ UNCHANGED <<pc, probe, client>>

NextAgents == CallPlanner \/ CallSearcher \/ CallEvaluator \/ CallSynthesizer

SpecAgents == InitAgents /\ [][NextAgents]_vars

\* ------------------------------------------------- the Evaluator under probe
\* The sequencer's order, Planner and then Searcher and Evaluator in turn for
\* ProbeRounds rounds, going on when a call raises; probe records the
\* Evaluator call while it is the last call: sources before it, the generation
\* outcome, and the kept list it built.
InitProbe == FreshState /\ pc = "probe"

ProbePlannerOutcomes ==
    {g \in PlannerOutcomes : g.kind = "text" /\ Len(ParsePlan(g.text, "")) = MaxSteps}

\* the value of the local `kept` when evaluator_agent is left
LocalKept(srcs, g) ==
    IF srcs = <<>> THEN <<>>
    ELSE IF ToScore(srcs) = <<>> THEN Kept(srcs)
    ELSE IF g.kind = "raise" THEN Kept(srcs)
    ELSE IF g.kind = "unparseable" THEN AfterParseFailure(srcs)
    ELSE ScoredKept(srcs, g)

ProbePlanner ==
    /\ pc = "probe"
    /\ run.planner = 0
    /\ \E g \in ProbePlannerOutcomes : planner_agent(g)
    /\ run' = [run EXCEPT !.planner = @ + 1]
    /\ UNCHANGED <<pc, probe, client>>

ProbeSearcher ==
    /\ pc = "probe"
    /\ run.planner = 1
    /\ run.search = run.evaluate
    /\ run.search < ProbeRounds
    /\ \E r \in SearchOutcomes : search_agent(r)
    /\ run' = [run EXCEPT !.search = @ + 1]
    /\ probe' = NoProbe
    /\ UNCHANGED <<pc, client>>

ProbeEvaluator ==
    /\ pc = "probe"
    /\ run.evaluate < run.search
    /\ \E g \in EvalOutcomes(sources) :
          /\ evaluator_agent(g)
          /\ probe' = [before |-> sources, answer |-> g, kept |-> LocalKept(sources, g)]
    /\ run' = [run EXCEPT !.evaluate = @ + 1]
    /\ UNCHANGED <<pc, client>>

NextProbe == ProbePlanner \/ ProbeSearcher \/ ProbeEvaluator

SpecProbe == InitProbe /\ [][NextProbe]_vars

\* ------------------------------------------------- the Planner on its own
\* One planner_agent call on a fresh state record, the provider answering with
\* any text of MaxLines lines at most, each line one of PlanLines, or failing;
\* probe records the generation outcome.
InitPlanner == FreshState /\ pc = "plan"

\* an empty line, a blank one, an enumerator with nothing after it, a
\* numbered, a dashed and a bulleted query, and a line of plain words
PlanLines ==
    { <<>>,
      <<" ", "\t">>,
      <<"1", ".">>,
      <<"2", ".", " ", "a">>,
      <<" ", "-", "b", " ">>,
      <<"*", "c">>,
      <<"a", " ", "b">> }

LinedTexts == {Join(lines) : lines \in SeqsUpTo(PlanLines, MaxLines)}

LinedPlannerOutcomes ==
    [kind : {"text"}, text : LinedTexts]
    \cup {[kind |-> "none"]}
    \cup [kind : {"raise"}, exc : GenErrors]

PlanOnce ==
    /\ pc = "plan"
    /\ run.planner = 0
    /\ \E g \in LinedPlannerOutcomes :
          /\ planner_agent(g)
          /\ probe' = [before |-> <<>>, answer |-> g, kept |-> <<>>]
    /\ run' = [run EXCEPT !.planner = @ + 1]
    /\ UNCHANGED <<pc, client>>

NextPlanner == PlanOnce

SpecPlanner == InitPlanner /\ [][NextPlanner]_vars

\* --------------------------------------- the Generation Client on its own
\* One thread, or all of them, calling generate_text, each MaxGenCalls times
\* at most, with any of the max_retries tried, the provider answering each
\* attempt in any way.
others == <<topic, plan, current_step, sources, report, status, tavily_key, pc, run, last, probe>>

InitClient ==
    /\ topic \in Topics
    /\ plan = <<>>
    /\ current_step = 0
    /\ sources = <<>>
    /\ report = None
    /\ status = <<None, 0>>
    /\ tavily_key = TRUE
    /\ run = [planner |-> 0, search |-> 0, evaluate |-> 0, synthesize |-> 0]
    /\ last = NoInvocation
    /\ probe = NoProbe
    /\ pc = "generate"
    /\ \E callers \in {{1}, Threads} : client = [IdleClient EXCEPT !.callers = callers]

ThreadCalls ==
    \E t \in Threads : \E m \in RetryChoices \cup SharedRetryChoices : Generate(t, m) /\ UNCHANGED others
ThreadWakes == \E t \in Threads : SleepEnds(t) /\ UNCHANGED others
ThreadAttempts == \E t \in Threads : StartAttempt(t) /\ UNCHANGED others
ThreadAnswered == \E t \in Threads : \E o \in ProviderOutcomes : ProviderAnswers(t, o) /\ UNCHANGED others
ClockAdvances == TimePasses /\ UNCHANGED others

NextClient == ThreadCalls \/ ThreadWakes \/ ThreadAttempts \/ ThreadAnswered \/ ClockAdvances

SpecClient == InitClient /\ [][NextClient]_vars

\* ---------------------------------------------------- a run kept track of
\* A sequencer run of a plan of 2 or 3 steps on a fresh state, with the
\* credential in place.  probe keeps track of it: retrieved = the urls of the
\* sources the Searcher appended, high = the urls of the sources that were
\* given a score of at least 0.6 by some Evaluator invocation, clean = whether
\* no Evaluator invocation so far failed to parse the model's answer, text =
\* what the report generation returned, shrinks = the number of steps that
\* left sources shorter than they found it.
InitTracked ==
    /\ topic \in Topics
    /\ plan = <<>>
    /\ current_step = 0
    /\ sources = <<>>
    /\ report = None
    /\ status = <<None, 0>>
    /\ tavily_key = TRUE
    /\ run = [planner |-> 0, search |-> 0, evaluate |-> 0, synthesize |-> 0]
    /\ last = NoInvocation
    /\ probe = [retrieved |-> {}, high |-> {}, clean |-> TRUE, text |-> None,
                shrinks |-> 0]
    /\ client = IdleClient
    /\ pc = "tracked_planner"

TrackedPlannerOutcomes ==
    {g \in PlannerOutcomes : g.kind = "text" /\ Len(ParsePlan(g.text, "")) \in {2, 3}}

TrackedGoto(node) == pc' = IF last'.outcome = "raised" THEN "tracked_aborted" ELSE node

\* the urls of the records of kept that reach the threshold
HighUrls(kept) == {kept[i].url : i \in {j \in 1..Len(kept) : kept[j].score >= ScoreThreshold}}

\* 1 if the step leaves sources shorter, else 0
Shrunk == IF Len(sources') < Len(sources) THEN 1 ELSE 0

TrackedPlanner ==
    /\ pc = "tracked_planner"
    /\ \E g \in TrackedPlannerOutcomes : planner_agent(g)
    /\ run' = [run EXCEPT !.planner = @ + 1]
    /\ probe' = [probe EXCEPT !.shrinks = @ + Shrunk]
    /\ UNCHANGED client
    /\ TrackedGoto("tracked_search")

TrackedSearch ==
    /\ pc = "tracked_search"
    /\ \E r \in SearchOutcomes : search_agent(r)
    /\ run' = [run EXCEPT !.search = @ + 1]
    /\ probe' = [probe EXCEPT !.retrieved = @ \cup SeenUrls(sources'),
                              !.shrinks = @ + Shrunk]
    /\ UNCHANGED client
    /\ TrackedGoto("tracked_evaluate")

TrackedEvaluate ==
    /\ pc = "tracked_evaluate"
    /\ \E g \in EvalOutcomes(sources) :
          /\ evaluator_agent(g)
          /\ probe' = [probe EXCEPT
                          !.high = @ \cup HighUrls(LocalKept(sources, g)),
                          !.clean = @ /\ last'.path \in {"no_sources", "all_scored", "parsed"},
                          !.shrinks = @ + Shrunk]
    /\ run' = [run EXCEPT !.evaluate = @ + 1]
    /\ UNCHANGED client
    /\ TrackedGoto(IF should_continue(current_step', plan') = "search"
                   THEN "tracked_search" ELSE "tracked_synthesize")

TrackedSynthesize ==
    /\ pc = "tracked_synthesize"
    /\ \E g \in SynthOutcomes :
          /\ synthesizer_agent(g)
          /\ probe' = [probe EXCEPT !.text = IF last'.path = "generated" THEN g.text ELSE @,
                                    !.shrinks = @ + Shrunk]
    /\ run' = [run EXCEPT !.synthesize = @ + 1]
    /\ UNCHANGED client
    /\ TrackedGoto("tracked_done")

NextTracked == TrackedPlanner \/ TrackedSearch \/ TrackedEvaluate \/ TrackedSynthesize

SpecTracked == InitTracked /\ [][NextTracked]_vars

\* ----------------------------------------------------------------- Boundary
\* research() runs the graph inside a try and maps what the run ends with to
\* its response (main.py 75-142).  The response is a function of the run's end:
\* pc and, for an aborted run, the exception of the last step.

\* The exception an aborted run ends with, with the words of str(e) that the
\* handlers look at.  In a run generate_text is called with its default
\* max_retries, so its RuntimeError is the one of gemini.py 85-88.
RunError(l) ==
    CASE l.exc = "RuntimeError" -> RateLimitExceeded
      [] l.exc = "EnvironmentError" ->
            [type |-> "EnvironmentError", text |-> <<"Missing", "TAVILY_API_KEY">>]
      [] l.exc = "ClientError" ->
            [type |-> "ClientError", text |-> <<"400", "INVALID_ARGUMENT">>]
      [] l.exc = "GraphRecursionError" ->
            [type |-> "GraphRecursionError", text |-> <<"Recursion", "limit", "reached">>]
      [] OTHER -> [type |-> l.exc, text |-> <<"search", "failed">>]

\* isinstance(e, RuntimeError): RuntimeError and its subclasses
\* (GraphRecursionError is a RecursionError).  EnvironmentError is an alias of
\* OSError and no RuntimeError; the providers' errors derive from Exception.
IsRuntimeError(e) == e.type \in {"RuntimeError", "GraphRecursionError"}

\* "rate limit" in error_msg.lower()  (main.py 100)
HasRateLimit(text) ==
    \E i \in 1..(Len(text) - 1) : Lower(text[i]) = "rate" /\ Lower(text[i + 1]) = "limit"

\* The handlers with the RuntimeError clause widened to every exception.
error_response_any_class(e) ==
    IF HasRateLimit(e.text)
    THEN [status_code |-> 429, error |-> "Rate limit exceeded"]
    ELSE IF Contains(e.text, "TAVILY_API_KEY")
    THEN [status_code |-> 500, error |-> "Configuration error"]
    ELSE [status_code |-> 500, error |-> "Research failed"]

\* The except clauses of research() (main.py 96-142): status code and the
\* error field of the detail.
error_response(e) ==
    IF IsRuntimeError(e)
    THEN IF HasRateLimit(e.text)
         THEN [status_code |-> 429, error |-> "Rate limit exceeded"]
         ELSE IF Contains(e.text, "TAVILY_API_KEY")
         THEN [status_code |-> 500, error |-> "Configuration error"]
         ELSE [status_code |-> 500, error |-> "Research failed"]
    ELSE [status_code |-> 500, error |-> "Internal server error"]

\* What research() answers once the run is over (main.py 84-142).
Response ==
    IF pc = "done" THEN [status_code |-> 200, error |-> "none"]
    ELSE IF pc = "aborted" THEN error_response(RunError(last))
    ELSE [status_code |-> 0, error |-> "pending"]

\* ------------------------------------------------------------------- claims
SearcherStep == run'.search = run.search + 1
EvaluatorStep == run'.evaluate = run.evaluate + 1
SynthesizerStep == run'.synthesize = run.synthesize + 1
PlannerStep == run'.planner = run.planner + 1

\* the run was ended by a step that raised (a failed external call, a missing
\* credential), not by the step ceiling
StepFault == pc = "aborted" /\ last.op # "sequencer"

\* C1: under the sequencer, whatever the plan, the search results and the
\* Evaluator outcomes are, a run in which no step raises reaches Done, and no
\* run ever makes more Searcher invocations than the plan has steps.
C1_Terminates ==
    /\ [](run.search <= Len(plan))
    /\ <>(StepFault \/ pc = "done")

\* a finished run of a 4-step plan whose searches all came back empty
C1_Witness ==
    /\ pc = "done"
    /\ Len(plan) = MaxSteps
    /\ run.search = Len(plan)
    /\ sources = <<>>

\* C2: a Searcher invocation with current_step < len(plan) whose search call
\* returns advances current_step by exactly 1 (source added or not); one with
\* current_step >= len(plan) makes no search call and changes nothing.
C2_SearcherAdvances ==
    [][SearcherStep =>
        IF current_step < Len(plan)
        THEN last'.outcome = "returned" =>
                /\ last'.search = 1
                /\ current_step' = current_step + 1
        ELSE /\ last'.outcome = "returned"
             /\ last'.search = 0
             /\ state' = state]_vars

\* the plan was walked to its end without a single source being added, and
\* the Searcher was then invoked once more
C2_Witness ==
    /\ last.op = "searcher"
    /\ last.path = "plan_done"
    /\ Len(plan) > 0
    /\ current_step = Len(plan)
    /\ sources = <<>>

\* C3: no two records of sources have the same url, and no record has an
\* empty or missing url.
C3_UniqueUrls ==
    /\ \A i \in 1..Len(sources) : sources[i].url # 0
    /\ \A i, j \in 1..Len(sources) : i # j => sources[i].url # sources[j].url

\* the Searcher skipped an already seen url while appending another next to
\* scored records
C3_Witness ==
    /\ last.op = "searcher"
    /\ last.dup
    /\ run.evaluate >= 1
    /\ Len(sources) >= 2
    /\ IsScored(sources[1])
    /\ ~IsScored(sources[Len(sources)])

\* C4: an Evaluator invocation that starts with sources non-empty and whose
\* generation call returns ends with sources non-empty; so the Synthesizer is
\* handed at least one source whenever the last Evaluator started with one.
C4_NeverEmpties ==
    [][(EvaluatorStep /\ sources # <<>> /\ last'.outcome = "returned") =>
        sources' # <<>>]_vars

\* the Evaluator parsed an answer, no record reached 0.6, and what it kept is
\* what the Synthesizer is handed
C4_Witness ==
    /\ pc = "synthesize"
    /\ last.op = "evaluator"
    /\ last.path = "parsed"
    /\ sources # <<>>
    /\ \A i \in 1..Len(sources) : sources[i].score < ScoreThreshold

\* the records of a list, as a set
Records(srcs) == {srcs[i] : i \in 1..Len(srcs)}

AtLeastThreshold(K) == {x \in K : x.score >= ScoreThreshold}

\* S is a choice of the 3 highest-scored records of K (all of K if it has fewer)
IsTopOf(S, K) ==
    /\ S \subseteq K
    /\ Cardinality(S) = Min2(TopK, Cardinality(K))
    /\ \A x \in S, y \in K \ S : x.score >= y.score

\* srcs holds exactly the records of K that reach 0.6 or, if none does, the
\* top 3 of K
FilteredOrTop(srcs, K) ==
    /\ Cardinality(Records(srcs)) = Len(srcs)
    /\ IF AtLeastThreshold(K) # {}
       THEN Records(srcs) = AtLeastThreshold(K)
       ELSE IsTopOf(Records(srcs), K)

\* the Evaluator was the last call and it scored at least one source
ScoredSome == last.op = "evaluator" /\ last.path \in {"parsed", "parse_failed"}

\* C5 as stated: after an Evaluator invocation that scored at least one
\* source, on either path, sources are the records of the kept set with
\* score >= 0.6 or, when there is none, its top 3.
C5_FilterOnBothPaths == ScoredSome => FilteredOrTop(sources, Records(probe.kept))

\* what the parse-failure branch is to leave: the already scored records, and
\* every unscored one with the default score and the error annotation
DefaultedAll(before) ==
    {x \in Records(before) : "score" \in DOMAIN x}
    \cup {[url |-> x.url, source_type |-> x.source_type, score |-> DefaultScore,
           eval_error |-> "JSON parse failed"] :
              x \in {y \in Records(before) : "score" \notin DOMAIN y}}

\* C5 amended: on the parse-success path sources are the records of the kept
\* set with score >= 0.6 or, when there is none, its top 3; on the
\* parse-failure path sources are the whole kept set, unfiltered: the already
\* scored records and every newly defaulted one.
C5_FilterOnParseSuccess ==
    /\ (last.op = "evaluator" /\ last.path = "parsed") =>
            FilteredOrTop(sources, Records(probe.kept))
    /\ (last.op = "evaluator" /\ last.path = "parse_failed") =>
            /\ Cardinality(Records(sources)) = Len(sources)
            /\ Records(sources) = DefaultedAll(probe.before)

\* a parse failure left a defaulted record next to one that reaches 0.6
C5_Witness ==
    /\ last.op = "evaluator"
    /\ last.path = "parse_failed"
    /\ \E i \in 1..Len(sources) : sources[i].score >= ScoreThreshold
    /\ \E i \in 1..Len(sources) : sources[i].score < ScoreThreshold

\* the indexes of the model's array elements that give id a numeric score
NumericFor(entries, id) ==
    {j \in 1..Len(entries) : entries[j].bad = "none" /\ entries[j].id = id}

Largest(S) == CHOOSE x \in S : \A y \in S : y <= x

\* the score the record with that id is to receive: the (last) numeric score
\* written for the id, clamped into [0,1]; 0.3 if there is none
ExpectedScore(answer, id) ==
    LET entries == IF answer.kind = "list" THEN answer.entries ELSE <<>>
        nums == NumericFor(entries, id)
        x == entries[Largest(nums)].score
    IN  IF nums = {} THEN DefaultScore
        ELSE IF x < MinScore THEN MinScore
        ELSE IF x > MaxScore THEN MaxScore
        ELSE x

\* C6: on the parse-success path every unscored source whose id the array
\* gives a numeric score receives that score clamped into [0,1] (the last one,
\* if the id is repeated); a source whose id has no numeric score in the array
\* (non-numeric score, id absent) receives 0.3; none gets an eval_error.
C6_ClampedOrDefault ==
    (last.op = "evaluator" /\ last.path = "parsed") =>
        \A i \in 1..Len(probe.before) :
            "score" \notin DOMAIN probe.before[i] =>
                LET expected == [url |-> probe.before[i].url,
                                 source_type |-> probe.before[i].source_type,
                                 score |-> ExpectedScore(probe.answer, i - 1)]
                IN  /\ expected \in Records(probe.kept)
                    /\ \A x \in Records(probe.kept) \cup Records(sources) :
                            x.url = expected.url => x = expected

\* two sources were sent; the array gave the first a score above 1 and the
\* second a non-numeric score; both were kept by the fallback or the filter
C6_Witness ==
    /\ last.op = "evaluator"
    /\ last.path = "parsed"
    /\ Len(ToScore(probe.before)) = 2
    /\ probe.answer.kind = "list"
    /\ Len(probe.answer.entries) = 2
    /\ probe.answer.entries[1].bad = "none"
    /\ probe.answer.entries[1].score > MaxScore
    /\ probe.answer.entries[1].id = ToScore(probe.before)[1]
    /\ probe.answer.entries[2].bad = "score"
    /\ probe.answer.entries[2].id = ToScore(probe.before)[2]
    /\ \E x \in Records(probe.kept) : x.score = MaxScore
    /\ \E x \in Records(probe.kept) : x.score = DefaultScore

AllScored(srcs) == \A i \in 1..Len(srcs) : "score" \in DOMAIN srcs[i]

\* C7: an Evaluator invocation on a state in which every source has a score,
\* in particular one that directly follows an Evaluator invocation that
\* returned, leaves sources as they are and makes no generation call.
C7_EvaluatorIdempotent ==
    [][(EvaluatorStep /\ (AllScored(sources)
                          \/ (last.op = "evaluator" /\ last.outcome = "returned"))) =>
        /\ sources' = sources
        /\ last'.outcome = "returned"
        /\ last'.gen = 0]_vars

\* Planner, Searcher, Evaluator, Evaluator: the second Evaluator call found
\* several records, all scored, one of them by the parse-failure default
C7_Witness ==
    /\ run = [planner |-> 1, search |-> 1, evaluate |-> 2, synthesize |-> 0]
    /\ last.op = "evaluator"
    /\ last.path = "all_scored"
    /\ Len(sources) >= 2
    /\ \E i \in 1..Len(sources) : "eval_error" \in DOMAIN sources[i]

\* C8 as stated: once report holds a string, a Synthesizer invocation leaves
\* it unchanged and makes no generation call.
C8_ReportWriteOnce ==
    [][(SynthesizerStep /\ report # None) =>
        /\ report' = report
        /\ last'.gen = 0]_vars

\* C9: Synthesizer invoked with report absent and sources empty sets report
\* to the fixed diagnostic message, makes no generation call and returns; the
\* run is then Done.
C9_NoSourcesReport ==
    [][(SynthesizerStep /\ report = None /\ sources = <<>>) =>
        /\ report' = NoSourcesMessage
        /\ last'.gen = 0
        /\ last'.outcome = "returned"
        /\ pc' = "done"]_vars

\* a run whose searches found nothing ended Done with the diagnostic message
C9_Witness ==
    /\ pc = "done"
    /\ sources = <<>>
    /\ last.op = "synthesizer"
    /\ last.gen = 0
    /\ report = NoSourcesMessage

\* C10: Planner always returns; when the generation call raised (rate-limit
\* exhaustion or another provider error) or parsing raised, plan is the
\* three-item fallback templated from topic and current_step is 0.
C10_PlannerRecovers ==
    [][PlannerStep =>
        /\ last'.outcome = "returned"
        /\ last'.exc # None =>
              /\ plan' = << <<"Research overview of ", topic>>,
                            <<"Find key developments in ", topic>>,
                            <<"Explore challenges in ", topic>> >>
              /\ current_step' = 0]_vars

\* the Planner was called again after a search had advanced the cursor, the
\* provider failed with an error that is no rate limit, and the fallback plan
\* is in place with the cursor back at 0
C10_Witness ==
    /\ last.op = "planner"
    /\ last.outcome = "returned"
    /\ last.exc = "ClientError"
    /\ run.planner = 2
    /\ run.search >= 1
    /\ Len(plan) = 3
    /\ current_step = 0
    /\ sources # <<>>

\* the text has no line with anything but blanks on it
NoParseableLine(text) ==
    \A i \in 1..Len(text) : text[i] \in {" ", "\t", "\n"}

\* C11: after Planner returns, whatever the generation output was (empty,
\* blank, unformatted, more than 4 qualifying lines) and whatever failure the
\* generation call had, 1 <= len(plan) <= 4 and every plan entry is a
\* non-empty string; when the output has no line with anything but blanks on
\* it, plan is the three-item default templated from topic.
C11_PlanShape ==
    last.op = "planner" =>
        /\ last.outcome = "returned"
        /\ 1 <= Len(plan)
        /\ Len(plan) <= 4
        /\ \A i \in 1..Len(plan) : plan[i] # <<>> /\ plan[i] # <<"">>
        /\ (probe.answer.kind = "text" /\ NoParseableLine(probe.answer.text)) =>
              plan = << <<"Find recent articles about ", topic>>,
                        <<"Search for expert opinions on ", topic>>,
                        <<"Look for case studies related to ", topic>> >>

\* the provider wrote five qualifying lines and the plan has the first four
C11_Witness ==
    /\ last.op = "planner"
    /\ probe.answer.kind = "text"
    /\ probe.answer.text = <<"2", ".", " ", "a", "\n", "*", "c", "\n", "2", ".", " ", "a",
                             "\n", "*", "c", "\n", " ", "-", "b", " ">>
    /\ plan = << <<"a">>, <<"c">>, <<"a">>, <<"c">> >>

\* C12: in every sequencer run Planner is invoked exactly once and first,
\* whatever the initial state holds; every Searcher invocation that returns is
\* directly followed by one Evaluator invocation and the Evaluator is invoked
\* at no other moment; Synthesizer is invoked at most once, nothing is invoked
\* after it, and the run is Done exactly when it has returned; every
\* transition executes one step.
C12_StepOrder ==
    /\ [][PlannerStep => Steps = 0]_vars
    /\ [](Steps > 0 => run.planner = 1)
    /\ [][(last.op = "searcher" /\ last.outcome = "returned") => EvaluatorStep]_vars
    /\ [][EvaluatorStep => (last.op = "searcher" /\ last.outcome = "returned")]_vars
    /\ [](run.evaluate <= run.search /\ run.search <= run.evaluate + 1)
    /\ [][SynthesizerStep =>
            /\ run.synthesize = 0
            /\ last.op = "evaluator"
            /\ pc' = IF last'.outcome = "returned" THEN "done" ELSE "aborted"]_vars
    /\ [](run.synthesize = 1 => pc \in {"done", "aborted"})
    /\ [](pc = "done" =>
            /\ last.op = "synthesizer"
            /\ run.planner = 1
            /\ run.synthesize = 1
            /\ run.search = run.evaluate
            /\ run.search >= 1)
    /\ [][\/ Steps' = Steps + 1 /\ \A n \in DOMAIN run : run'[n] >= run[n]
          \/ pc' = "aborted" /\ run' = run]_vars

\* a run started on a state that already had a plan with the cursor at its
\* end, a source and a report: the Planner ran, the loop went round twice
\* and the Synthesizer found the report in place
C12_Witness ==
    /\ pc = "done"
    /\ run = [planner |-> 1, search |-> 2, evaluate |-> 2, synthesize |-> 1]
    /\ last.op = "synthesizer"
    /\ last.path = "already"
    /\ Len(plan) = 2
    /\ Len(sources) >= 2

\* the sleeps of a call whose first n attempts met a rate limit
Backoffs(n) == [k \in 1..n |-> IF 3 * 2^(k - 1) < 30 THEN 3 * 2^(k - 1) ELSE 30]

TooManyRequests == [type |-> "RuntimeError", text |-> <<"Gemini", "API", "rate", "limit", "exceeded">>]

\* C13: a generate call whose attempts all fail with a rate-limit-class error
\* makes exactly max_retries provider attempts, sleeps min(3 * 2^k, 30) time
\* units after the k-th failed attempt (k = 0, 1, ...) but not after the last,
\* starts no attempt before such a sleep is over, and then fails with the
\* rate-limit-exceeded error; a call that got a text made no attempt after
\* the successful one.
C13_RetriesAndBackoff ==
    \A t \in Threads :
        LET me == client.th[t]
        IN  /\ me.attempts <= me.max_retries
            /\ me.failed <= me.attempts
            /\ (me.attempts > 0 /\ me.failed = me.attempts) =>
                  /\ me.sleeps = Backoffs(Min2(me.failed, me.max_retries - 1))
                  /\ me.pc = "attempt" => client.now >= me.wake
                  /\ me.pc = "idle" =>
                        /\ me.attempts = me.max_retries
                        /\ me.result = [kind |-> "raise", text |-> None, exc |-> TooManyRequests]
            /\ (me.result.kind = "raise" /\ me.result.exc = TooManyRequests) =>
                  me.failed = me.max_retries
            /\ me.result.kind = "text" =>
                  /\ me.pc = "idle"
                  /\ me.attempts = me.failed + 1

\* a call with six attempts allowed met the rate limit six times, slept 3, 6,
\* 12, 24 and 30 time units and failed with the rate-limit-exceeded error
C13_Witness ==
    \E t \in Threads :
        /\ client.th[t].pc = "idle"
        /\ client.th[t].max_retries = 6
        /\ client.th[t].attempts = 6
        /\ client.th[t].sleeps = <<3, 6, 12, 24, 30>>
        /\ client.th[t].result.kind = "raise"
        /\ client.th[t].result.exc.type = "RuntimeError"

\* the provider errors of rate-limit class
RateLimitClass ==
    { [type |-> "ClientError", text |-> <<"429", "Too", "Many", "Requests">>],
      [type |-> "ClientError", text |-> <<"RESOURCE_EXHAUSTED">>],
      [type |-> "ClientError", text |-> <<"Quota", "exceeded">>] }

\* C14: a provider error that is not of rate-limit class, at whichever attempt
\* it occurs, ends the generate call at once with that same error: no further
\* attempt, no sleep after it, no conversion into the rate-limit-exceeded
\* error.
C14_OtherErrorsPropagate ==
    \A t \in Threads :
        LET me == client.th[t]
        IN  (me.provider_error.type # "none" /\ me.provider_error \notin RateLimitClass) =>
                /\ me.pc = "idle"
                /\ me.result = [kind |-> "raise", text |-> None, exc |-> me.provider_error]
                /\ me.attempts = me.failed + 1
                /\ Len(me.sleeps) = me.failed

\* after two rate limits the third attempt met a ClientError of another class,
\* which ended the call
C14_Witness ==
    \E t \in Threads :
        /\ client.th[t].pc = "idle"
        /\ client.th[t].max_retries = 6
        /\ client.th[t].attempts = 3
        /\ client.th[t].sleeps = <<3, 6>>
        /\ client.th[t].result.kind = "raise"
        /\ client.th[t].result.exc = [type |-> "ClientError", text |-> <<"400", "INVALID_ARGUMENT">>]

\* C15 as stated: whoever the callers are, threads of concurrent requests
\* included, the starts of any two provider calls are at least the minimum
\* interval of 2 time units apart.
C15_MinInterval == client.min_gap >= 2

\* sources are, without repetition, the records of the retrieved urls in
\* high, each with a score of at least 0.6
ExactlyTheHigh(srcs, high) ==
    /\ {srcs[i].url : i \in 1..Len(srcs)} = high \cap probe.retrieved
    /\ \A i, j \in 1..Len(srcs) : srcs[i].url = srcs[j].url => i = j
    /\ \A i \in 1..Len(srcs) : "score" \in DOMAIN srcs[i] /\ srcs[i].score >= 6

C17_AbortsOnlyOnRateLimitOrCredential ==
    /\ pc = "aborted" => last.exc \in {"RuntimeError", "EnvironmentError"}
    /\ last.op \in {"planner", "evaluator"} =>
          (last.outcome = "raised" => last.exc = "RuntimeError")

\* C17 amended: a run aborts exactly when a step raises, and that is: the
\* Searcher on a missing credential or a failed search call, the Evaluator or
\* the Synthesizer on a failed generation call, be it rate-limit exhaustion
\* or another provider error.  Planner never raises; the Evaluator does not
\* raise on an answer it cannot parse; the step ceiling ends no run.
C17_AbortCauses ==
    /\ pc = "aborted" <=> last.outcome = "raised"
    /\ pc = "aborted" =>
          \/ last.op = "searcher" /\ last.exc \in {"EnvironmentError", "SearchError"}
          \/ last.op \in {"evaluator", "synthesizer"} /\ last.gen = 1
                /\ last.exc \in {"RuntimeError", "ClientError"}
    /\ (last.op = "evaluator" /\ last.outcome = "raised") => last.path = "raised"

\* the second Evaluator invocation of a run met a provider error that is no
\* rate limit, and the run was aborted with sources in place
C17_Witness ==
    /\ pc = "aborted"
    /\ last.op = "evaluator"
    /\ last.exc = "ClientError"
    /\ run.evaluate = 2
    /\ sources # <<>>
    /\ report = None

\* C18: malformed model output never aborts a run and is never surfaced as an
\* error: the Planner returns normally with a plan of 1 to 4 steps whatever
\* text it was given, and the Evaluator, unless its generation call itself
\* failed, returns normally with every source scored, whatever the text was
\* (empty, no JSON, JSON that is no array, elements lacking id or score, ids
\* of no unscored source, repeated ids); neither ends the run.
C18_MalformedOutputTolerated ==
    [][/\ PlannerStep =>
            /\ last'.outcome = "returned"
            /\ pc' # "aborted"
            /\ 1 <= Len(plan') /\ Len(plan') <= 4
       /\ (EvaluatorStep /\ last'.exc \notin {"RuntimeError", "ClientError"}) =>
            /\ last'.outcome = "returned"
            /\ last'.exc = None
            /\ pc' # "aborted"
            /\ \A i \in 1..Len(sources') : "score" \in DOMAIN sources'[i]]_vars

\* the Planner was answered with a text without a line to use and set the
\* default plan; the Evaluator was answered with JSON that gave a source no
\* numeric score and set the default score without an error annotation
C18_Witness ==
    /\ plan = << <<"Find recent articles about ", topic>>,
                 <<"Search for expert opinions on ", topic>>,
                 <<"Look for case studies related to ", topic>> >>
    /\ last.op = "evaluator"
    /\ last.path = "parsed"
    /\ last.outcome = "returned"
    /\ \E i \in 1..Len(sources) :
          sources[i].score = 3 /\ "eval_error" \notin DOMAIN sources[i]

\* C19: after every Evaluator invocation that returns, the sequencer moves to
\* Searcher if current_step < len(plan) and to Synthesizer otherwise; so the
\* Synthesizer is only invoked with current_step = len(plan) and the Searcher
\* only with current_step < len(plan).
C19_LoopOrSynthesize ==
    /\ [][(EvaluatorStep /\ last'.outcome = "returned") =>
            pc' = IF current_step' < Len(plan') THEN "search" ELSE "synthesize"]_vars
    /\ [][SynthesizerStep => current_step = Len(plan)]_vars
    /\ [][SearcherStep => current_step < Len(plan)]_vars
    /\ [](pc = "synthesize" => current_step = Len(plan))
    /\ [](pc = "search" => current_step < Len(plan))

\* a run started on a state with an older plan and the cursor at its end:
\* after the fourth Evaluator invocation on the new plan the Synthesizer is
\* next
C19_Witness ==
    /\ pc = "synthesize"
    /\ last.op = "evaluator"
    /\ run.evaluate = 4
    /\ Len(plan) = 4
    /\ current_step = 4
    /\ report = "report A"

\* C20: the step ceiling is never reached: a run executes at most
\* 2 * len(plan) + 2 steps, exactly that many when it is Done, which is at
\* most 10 and below the ceiling of 30; no run is ended by the ceiling.
C20_BelowCeiling ==
    /\ Steps <= 10
    /\ Steps < 30
    /\ run.planner = 1 => Steps <= 2 * Len(plan) + 2
    /\ pc = "done" => Steps = 2 * Len(plan) + 2
    /\ last.op # "sequencer"
    /\ last.exc # "GraphRecursionError"

\* a finished run of a 4-step plan: 10 steps
C20_Witness ==
    /\ pc = "done"
    /\ Len(plan) = 4
    /\ run = [planner |-> 1, search |-> 4, evaluate |-> 4, synthesize |-> 1]
    /\ sources # <<>>

\* the place of kept[j] when kept is put in descending score order with equal
\* scores left in their order: one more than the number of records that
\* score higher plus the number of earlier records that score the same
RankIn(kept, j) ==
    1 + Cardinality({k \in 1..Len(kept) : kept[k].score > kept[j].score})
      + Cardinality({k \in 1..(j - 1) : kept[k].score = kept[j].score})

\* srcs is the first 3 of kept in that order (all of kept if it has fewer)
IsStableTop(srcs, kept) ==
    /\ Len(srcs) = Min2(TopK, Len(kept))
    /\ \A j \in 1..Len(kept) :
          RankIn(kept, j) <= Len(srcs) => srcs[RankIn(kept, j)] = kept[j]

\* the top-3 fallback engaged in the last Evaluator call
FallbackEngaged ==
    /\ last.op = "evaluator"
    /\ last.path = "parsed"
    /\ \A i \in 1..Len(probe.kept) : probe.kept[i].score < ScoreThreshold

\* C21: when the top-3 fallback engages (no record of the kept set reaches
\* 0.6), the new sources are the 3 highest-scored records of the whole kept
\* set (all of them if it has fewer than 3), in descending score order, records
\* of equal score in their original relative order.
C21_StableTopThree ==
    FallbackEngaged => IsStableTop(sources, probe.kept)

\* four kept records, all below 0.6, the first scoring lower than the second
\* and third, which tie: the tie is kept in order and the first record moves
\* to the third place, the fourth is dropped
C21_Witness ==
    /\ FallbackEngaged
    /\ Len(probe.kept) = 4
    /\ probe.kept[1].score < probe.kept[2].score
    /\ probe.kept[2].score = probe.kept[3].score
    /\ probe.kept[4].score = probe.kept[1].score
    /\ sources = <<probe.kept[2], probe.kept[3], probe.kept[1]>>

\* a line qualifies: trimmed, it starts with a digit, '-' or the bullet
Qualifies(line) ==
    Strip(line) # <<>> /\ Head(Strip(line)) \in {"1", "2", "3", "-", "*"}

NotEmpty(s) == s # <<>>

\* the non-empty stripped remainders of the qualifying lines of a text
Remainders(text) ==
    LET lines == Split(text)
    IN  SelectSeq([i \in 1..Len(lines) |->
                      IF Qualifies(lines[i])
                      THEN LStripSet(Strip(lines[i]), Enumeration)
                      ELSE <<>>],
                  NotEmpty)

\* the non-empty trimmed lines of a text
TrimmedLines(text) ==
    LET lines == Split(text)
    IN  SelectSeq([i \in 1..Len(lines) |-> Strip(lines[i])], NotEmpty)

FirstFour(s) == SubSeq(s, 1, Min2(4, Len(s)))

ThreeDefaults ==
    << <<"Find recent articles about ", topic>>,
       <<"Search for expert opinions on ", topic>>,
       <<"Look for case studies related to ", topic>> >>

\* the Planner has just parsed a text of the provider
ParsedText == last.op = "planner" /\ probe.answer.kind = "text"

\* C22 as stated: the every-non-empty-line fallback is used only when no line
\* qualifies; when a line qualifies the plan is the non-empty remainders of the
\* qualifying lines (the first 4), or the three defaults if no remainder is
\* non-empty.
C22_FallbackOnlyWithoutQualifyingLine ==
    ParsedText =>
        LET text == probe.answer.text
            lines == Split(text)
        IN  IF \E i \in 1..Len(lines) : Qualifies(lines[i])
            THEN plan = IF Remainders(text) # <<>>
                        THEN FirstFour(Remainders(text))
                        ELSE ThreeDefaults
            ELSE plan = IF TrimmedLines(text) # <<>>
                        THEN FirstFour(TrimmedLines(text))
                        ELSE ThreeDefaults

\* C22, amended: the every-non-empty-line fallback is used exactly when no
\* qualifying line has a non-empty remainder (no line qualifies, or
\* every qualifying line is enumeration characters only); when some remainder
\* is non-empty the plan is the non-empty remainders of the qualifying lines
\* alone (the first 4); otherwise it is the non-empty trimmed lines (the first
\* 4), enumeration-only lines among them, and the three defaults only when the
\* text has no non-empty line.
C22_FallbackWithoutRemainder ==
    ParsedText =>
        LET text == probe.answer.text
        IN  plan = IF Remainders(text) # <<>> THEN FirstFour(Remainders(text))
                   ELSE IF TrimmedLines(text) # <<>> THEN FirstFour(TrimmedLines(text))
                   ELSE ThreeDefaults

\* the text "1." / "a b": the one qualifying line has an empty remainder and
\* the plan is both trimmed lines, "1." among them
C22_Witness ==
    /\ ParsedText
    /\ probe.answer.text = <<"1", ".", "\n", "a", " ", "b">>
    /\ plan = << <<"1", ".">>, <<"a", " ", "b">> >>

\* a is b or b with records added at its end
IsPrefix(a, b) == Len(a) <= Len(b) /\ SubSeq(b, 1, Len(a)) = a

\* what C23 says of the single steps: Searcher only appends, Planner and
\* Synthesizer leave sources alone, Evaluator adds no record, and only the
\* filtering pass of the Evaluator (its parse-success path) leaves sources
\* shorter
AppendOnlyButFilter ==
    /\ [][SearcherStep => IsPrefix(sources, sources')]_vars
    /\ [][PlannerStep \/ SynthesizerStep => sources' = sources]_vars
    /\ [][EvaluatorStep => SeenUrls(sources') \subseteq SeenUrls(sources)]_vars
    /\ [][Len(sources') < Len(sources) => EvaluatorStep /\ last'.path = "parsed"]_vars

\* C23 as stated: over a run sources is append-only except for the
\* Evaluator's filtering pass: only Evaluator removes records, Searcher only
\* appends, and the length of sources decreases at most once in the whole run.
C23_ShrinksOnce ==
    /\ AppendOnlyButFilter
    /\ [](probe.shrinks <= 1)

\* C23, amended: over a run sources is append-only except for the Evaluator's
\* filtering pass: only Evaluator removes records, Searcher only appends; the
\* length of sources can decrease in every Evaluator invocation on its
\* parse-success path, so at most once per plan step.
C23_ShrinksOncePerEvaluation ==
    /\ AppendOnlyButFilter
    /\ [](probe.shrinks <= run.evaluate)
    /\ [](run.planner = 1 => probe.shrinks <= Len(plan))

\* a finished run of three steps in which each of the three Evaluator
\* invocations left sources shorter
C23_Witness ==
    /\ pc = "tracked_done"
    /\ Len(plan) = 3
    /\ run.evaluate = 3
    /\ probe.shrinks = 3
    /\ Len(sources) = 1

\* C24: after Planner has returned, no Searcher, Evaluator or Synthesizer
\* invocation changes topic or plan (contents, order and length); Evaluator and
\* Synthesizer leave current_step unchanged; Planner, Searcher and Evaluator
\* leave report unchanged.
C24_Frame ==
    /\ [][run.planner >= 1 /\ (SearcherStep \/ EvaluatorStep \/ SynthesizerStep)
             => topic' = topic /\ plan' = plan]_vars
    /\ [][EvaluatorStep \/ SynthesizerStep => current_step' = current_step]_vars
    /\ [][PlannerStep \/ SearcherStep \/ EvaluatorStep => report' = report]_vars

\* Planner, then Searcher, Evaluator and Synthesizer have each acted: the plan
\* of two steps is as parsed, the cursor is where the Searcher left it and the
\* report is the Synthesizer's
C24_Witness ==
    /\ run = [planner |-> 1, search |-> 1, evaluate |-> 1, synthesize |-> 1]
    /\ last.op = "synthesizer"
    /\ plan = << <<"a">>, <<"b">> >>
    /\ current_step = 1
    /\ sources # <<>>
    /\ report = "report A"

\* the run was ended by the Searcher finding no search credential
CredentialMissing ==
    pc = "aborted" /\ last.op = "searcher" /\ last.exc = "EnvironmentError"

\* C25: when the search credential is missing, the run aborts at the first
\* Searcher invocation without any retry (no search call is made, nothing
\* follows), and the boundary reports a configuration error, a category apart
\* from the rate-limit condition and from the unexpected internal error.
C25_ConfigurationErrorReported ==
    /\ (~tavily_key /\ run.search >= 1) => CredentialMissing
    /\ CredentialMissing =>
          /\ run = [planner |-> 1, search |-> 1, evaluate |-> 0, synthesize |-> 0]
          /\ last.search = 0
          /\ Response.error = "Configuration error"
          /\ Response.error \notin {"Rate limit exceeded", "Internal server error"}

\* what does hold: the run aborts at the first Searcher invocation, no search
\* call made and no step after it, and the boundary answers as for an
\* unexpected internal error
C25_AbortsAtFirstSearch ==
    /\ (~tavily_key /\ run.search >= 1) => CredentialMissing
    /\ CredentialMissing =>
          /\ run = [planner |-> 1, search |-> 1, evaluate |-> 0, synthesize |-> 0]
          /\ last.search = 0
          /\ Response = [status_code |-> 500, error |-> "Internal server error"]

C25_Witness ==
    /\ CredentialMissing
    /\ ~tavily_key
    /\ Len(plan) = 4
    /\ current_step = 0
    /\ sources = <<>>

\* every record of srcs has a score between 0 and 1
ScoredInRange(srcs) ==
    \A i \in 1..Len(srcs) :
        "score" \in DOMAIN srcs[i] /\ 0 <= srcs[i].score /\ srcs[i].score <= 10

\* the records the Evaluator submits for scoring when invoked on srcs
Submitted(srcs) == {srcs[ToScore(srcs)[j] + 1] : j \in 1..Len(ToScore(srcs))}

StepRaised == last'.outcome = "raised"

\* C27: a failing step leaves the state as it found it: when the generation
\* call raises in the Evaluator, sources is exactly as before (no score or
\* eval_error attached, no record removed or moved); when the credential is
\* missing or the search call raises in the Searcher, current_step and sources
\* are unchanged; when the generation call raises in the Synthesizer, report
\* stays absent.
C27_FailingStepLeavesState ==
    /\ [][(EvaluatorStep /\ StepRaised) =>
            /\ last'.gen = 1
            /\ sources' = sources
            /\ \E i \in 1..Len(sources') : "score" \notin DOMAIN sources'[i]]_vars
    /\ [][(SearcherStep /\ StepRaised) =>
            /\ last'.exc = "EnvironmentError" <=> ~tavily_key
            /\ last'.exc = "SearchError" <=> (tavily_key /\ last'.search = 1)
            /\ current_step' = current_step
            /\ sources' = sources]_vars
    /\ [][(SynthesizerStep /\ StepRaised) =>
            /\ last'.gen = 1
            /\ report = None
            /\ report' = None]_vars
    /\ [][StepRaised => topic' = topic /\ plan' = plan /\ current_step' = current_step]_vars

\* the search call of the third Searcher invocation failed: the cursor is
\* still at 2 and the two sources scored before are in place
C27_Witness ==
    /\ pc = "aborted"
    /\ last.op = "searcher"
    /\ last.exc = "SearchError"
    /\ run.search = 3
    /\ current_step = 2
    /\ Len(sources) = 2
    /\ ScoredInRange(sources)

====
